---- MODULE Spec2Model ----
(***************************************************************************)
(* A model of drivers/net/wireless/orinoco/spectrum_cs.c: the PCMCIA       *)
(* attachment layer of the Symbol Spectrum24 driver.                       *)
(*                                                                         *)
(*   Spec       the entry points the bus calls (probe, detach, suspend,    *)
(*              resume) over a bounded number of probes.                   *)
(*   SpecIrq    spectrum_cs_release() statement by statement against the   *)
(*              radio driver's interrupt handler.                          *)
(*   SpecReset  spectrum_reset() applied to every input of a bounded set   *)
(*              of register contents, presence and access failures.        *)
(*   SpecScan   the scan of a configuration table by                       *)
(*              spectrum_cs_config_check(), over bounded tables.           *)
(***************************************************************************)
EXTENDS Integers, Sequences, FiniteSets, TLC

(***************************************************************************)
(* Program constants.                                                      *)
(***************************************************************************)
\* #define HCR_RUN 0x07: run firmware after reset.
HCR_RUN == 7
\* #define HCR_IDLE 0x0E: don't run firmware after reset.
HCR_IDLE == 14
\* #define HCR_MEM16 0x10: memory width bit, should be preserved.
HCR_MEM16 == 16
\* COR_SOFT_RESET of <pcmcia/cisreg.h> (0x80), used at lines 105 and 130.
COR_SOFT_RESET == 128
\* ENODEV of <linux/errno.h>; spectrum_reset and spectrum_cs_config return -ENODEV.
ENODEV == 19
\* udelay(1000): the settle time after each write, in microseconds.
SETTLE_US == 1000

(***************************************************************************)
(* Bitwise arithmetic on unsigned values, bit by bit.                      *)
(***************************************************************************)
RECURSIVE BitAnd(_, _)
BitAnd(a, b) ==
    IF a = 0 \/ b = 0 THEN 0
    ELSE (a % 2) * (b % 2) + 2 * BitAnd(a \div 2, b \div 2)

RECURSIVE BitOr(_, _)
BitOr(a, b) ==
    IF a = 0 THEN b
    ELSE IF b = 0 THEN a
    ELSE (IF a % 2 = 1 \/ b % 2 = 1 THEN 1 ELSE 0) + 2 * BitOr(a \div 2, b \div 2)

\* a & ~m: the bits of a that are not in m.
BitClear(a, m) == a - BitAnd(a, m)

(***************************************************************************)
(* spectrum_reset(link, idle)                                              *)
(*                                                                         *)
(* The card is the pair of configuration registers COR and CCSR.  Each     *)
(* call of pcmcia_access_configuration_register() is one entry of the      *)
(* trace, each udelay() another.  `fail` is the number of the access that  *)
(* the bus refuses (0: none) and `code` the nonzero code it returns there; *)
(* `pulse` is the content of CCSR once the soft reset pulse has acted.     *)
(***************************************************************************)
Access(act, off, val, rc) == [op |-> act, reg |-> off, val |-> val, rc |-> rc]
Delay(us)                 == [op |-> "udelay", reg |-> "-", val |-> us, rc |-> 0]

\* The outcome of the function: its return value, what it did, what
\* cs_error() reported (<<>> when it was not called) and the registers.
ResetResult(ret, trace, report, regs) ==
    [ret |-> ret, trace |-> trace, report |-> report, regs |-> regs]

\* cs_failed: cs_error(link, last_fn, last_ret); return -ENODEV.
cs_failed(trace, last_fn, last_ret, regs) ==
    ResetResult(-ENODEV, trace, <<last_fn, last_ret>>, regs)

\* reg.Value = (save_cor | COR_SOFT_RESET)
SoftResetValue(save_cor) == BitOr(save_cor, COR_SOFT_RESET)

\* A variant that carries every bit of the value read into the value written.
CcsrValue_AllBits(idle, read_value) ==
    BitOr(IF idle THEN HCR_IDLE ELSE HCR_RUN, read_value)

\* reg.Value = (idle ? HCR_IDLE : HCR_RUN) | (reg.Value & HCR_MEM16)
CcsrValue(idle, read_value) ==
    BitOr(IF idle THEN HCR_IDLE ELSE HCR_RUN, BitAnd(read_value, HCR_MEM16))

\* A variant that restores the saved value without clearing the reset bit.
RestoreValue_AsSaved(save_cor) == save_cor

\* reg.Value = (save_cor & ~COR_SOFT_RESET)
RestoreValue(save_cor) == BitClear(save_cor, COR_SOFT_RESET)

\* Restore original COR configuration index (the fifth access and its delay).
reset_restore_cor(idle, regs, fail, code, save_cor, trace) ==
    IF fail = 5
    THEN cs_failed(Append(trace, Access("CS_WRITE", "CISREG_COR", RestoreValue(save_cor), code)),
                   "AccessConfigurationRegister", code, regs)
    ELSE ResetResult(0,
                     trace \o << Access("CS_WRITE", "CISREG_COR", RestoreValue(save_cor), 0),
                                 Delay(SETTLE_US) >>,
                     <<>>,
                     [regs EXCEPT !.cor = RestoreValue(save_cor)])

\* A variant that does not wait after writing CCSR.
reset_write_ccsr_NoDelay(idle, regs, fail, code, save_cor, read_value, trace) ==
    IF fail = 4
    THEN cs_failed(Append(trace, Access("CS_WRITE", "CISREG_CCSR", CcsrValue(idle, read_value), code)),
                   "AccessConfigurationRegister", code, regs)
    ELSE reset_restore_cor(idle, [regs EXCEPT !.ccsr = CcsrValue(idle, read_value)],
                           fail, code, save_cor,
                           Append(trace, Access("CS_WRITE", "CISREG_CCSR", CcsrValue(idle, read_value), 0)))

\* Start or stop the firmware (the fourth access and its delay).
reset_write_ccsr(idle, regs, fail, code, save_cor, read_value, trace) ==
    IF fail = 4
    THEN cs_failed(Append(trace, Access("CS_WRITE", "CISREG_CCSR", CcsrValue(idle, read_value), code)),
                   "AccessConfigurationRegister", code, regs)
    ELSE reset_restore_cor(idle, [regs EXCEPT !.ccsr = CcsrValue(idle, read_value)],
                           fail, code, save_cor,
                           trace \o << Access("CS_WRITE", "CISREG_CCSR", CcsrValue(idle, read_value), 0),
                                       Delay(SETTLE_US) >>)

\* A variant that does not check the result of reading CCSR.
reset_read_ccsr_Unchecked(idle, regs, fail, code, save_cor, trace) ==
    reset_write_ccsr(idle, regs, fail, code, save_cor, regs.ccsr,
                     Append(trace, Access("CS_READ", "CISREG_CCSR", regs.ccsr,
                                          IF fail = 3 THEN code ELSE 0)))

\* Read CCSR (the third access).
reset_read_ccsr(idle, regs, fail, code, save_cor, trace) ==
    IF fail = 3
    THEN cs_failed(Append(trace, Access("CS_READ", "CISREG_CCSR", 0, code)),
                   "AccessConfigurationRegister", code, regs)
    ELSE reset_write_ccsr(idle, regs, fail, code, save_cor, regs.ccsr,
                          Append(trace, Access("CS_READ", "CISREG_CCSR", regs.ccsr, 0)))

\* Soft-Reset card (the second access and its delay); the pulse rewrites CCSR.
reset_soft_reset(idle, regs, pulse, fail, code, save_cor, trace) ==
    IF fail = 2
    THEN cs_failed(Append(trace, Access("CS_WRITE", "CISREG_COR", SoftResetValue(save_cor), code)),
                   "AccessConfigurationRegister", code, regs)
    ELSE reset_read_ccsr(idle, [cor |-> SoftResetValue(save_cor), ccsr |-> pulse],
                         fail, code, save_cor,
                         trace \o << Access("CS_WRITE", "CISREG_COR", SoftResetValue(save_cor), 0),
                                     Delay(SETTLE_US) >>)

\* Save original COR value (the first access).
reset_save_cor(idle, regs, pulse, fail, code) ==
    IF fail = 1
    THEN cs_failed(<< Access("CS_READ", "CISREG_COR", 0, code) >>,
                   "AccessConfigurationRegister", code, regs)
    ELSE reset_soft_reset(idle, regs, pulse, fail, code, regs.cor,
                          << Access("CS_READ", "CISREG_COR", regs.cor, 0) >>)

\* A variant without the presence check.
spectrum_reset_NoPresenceCheck(present, idle, regs, pulse, fail, code) ==
    reset_save_cor(idle, regs, pulse, fail, code)

spectrum_reset(present, idle, regs, pulse, fail, code) ==
    IF ~present
    THEN ResetResult(-ENODEV, <<>>, <<>>, regs)
    ELSE reset_save_cor(idle, regs, pulse, fail, code)

(***************************************************************************)
(* spectrum_cs_config_check(p_dev, cfg, dflt, vcc, priv_data)              *)
(*                                                                         *)
(* A configuration table entry is                                          *)
(*   [index, vcc : [present, param], vpp1 : [present, param],              *)
(*    io : [nwin, flags, win : <<[base, len], [base, len]>>]]              *)
(* where present is the bit mask of the power parameters the entry gives   *)
(* and param the nominal voltage in units of 10 microvolts.  The device    *)
(* is the part of struct pcmcia_device the function writes:                *)
(*   [Vpp, Attributes, io : [Attributes1, Attributes2, IOAddrLines,        *)
(*    BasePort1, NumPorts1, BasePort2, NumPorts2]]                         *)
(* The bus is [io : the I/O ranges reserved for the device,                *)
(* irq, conf : BOOLEAN], and `busy` the base ports others occupy.          *)
(***************************************************************************)
\* Constants of <pcmcia/cistpl.h> and <pcmcia/cs.h>.
CISTPL_POWER_VNOM == 0
CISTPL_IO_LINES_MASK == 31
CISTPL_IO_8BIT == 32
CISTPL_IO_16BIT == 64
IO_DATA_PATH_WIDTH_8 == 0
IO_DATA_PATH_WIDTH_16 == 8
IO_DATA_PATH_WIDTH_AUTO == 16
\* The divisor that rescales a CIS voltage to the socket's tenths of a volt.
CIS_RESCALE == 10000

\* priv and link as pcmcia_bus hands them to probe: nothing resolved yet.
NoIo == [Attributes1 |-> 0, Attributes2 |-> 0, IOAddrLines |-> 0,
         BasePort1 |-> 0, NumPorts1 |-> 0, BasePort2 |-> 0, NumPorts2 |-> 0]
NoDevice == [Vpp |-> 0, Attributes |-> {}, io |-> NoIo]
NoBus == [io |-> {}, irq |-> FALSE, conf |-> FALSE]

\* present & (1 << CISTPL_POWER_VNOM)
HasVnom(power) == BitAnd(power.present, 2 ^ CISTPL_POWER_VNOM) # 0
\* param[CISTPL_POWER_VNOM] / 10000
Rescaled(power) == power.param \div CIS_RESCALE

\* A variant of the voltage check that the override flag does not relax.
VccRejects_NoOverride(cfg, dflt, vcc, ignore) ==
    IF HasVnom(cfg.vcc) THEN vcc # Rescaled(cfg.vcc)
    ELSE IF HasVnom(dflt.vcc) THEN vcc # Rescaled(dflt.vcc)
    ELSE FALSE

\* A variant of the voltage check that looks at the entry's own voltage only.
VccRejects_OwnOnly(cfg, dflt, vcc, ignore) ==
    IF HasVnom(cfg.vcc) THEN vcc # Rescaled(cfg.vcc) /\ ~ignore
    ELSE FALSE

\* Use power settings for Vcc if present: TRUE when the entry is skipped.
VccRejects(cfg, dflt, vcc, ignore) ==
    IF HasVnom(cfg.vcc) THEN vcc # Rescaled(cfg.vcc) /\ ~ignore
    ELSE IF HasVnom(dflt.vcc) THEN vcc # Rescaled(dflt.vcc) /\ ~ignore
    ELSE FALSE

\* Use power settings for Vpp if present; then conf.Attributes |= CONF_ENABLE_IRQ.
SetVpp(p_dev, cfg, dflt) ==
    [p_dev EXCEPT
        !.Vpp = IF HasVnom(cfg.vpp1) THEN Rescaled(cfg.vpp1)
                ELSE IF HasVnom(dflt.vpp1) THEN Rescaled(dflt.vpp1)
                ELSE @,
        !.Attributes = @ \cup {"CONF_ENABLE_IRQ"}]

\* A variant that prefers the default entry's I/O descriptor.
ChosenIo_DefaultFirst(cfg, dflt) == IF dflt.io.nwin # 0 THEN dflt.io ELSE cfg.io

\* cistpl_io_t *io = (cfg->io.nwin) ? &cfg->io : &dflt->io
ChosenIo(cfg, dflt) == IF cfg.io.nwin # 0 THEN cfg.io ELSE dflt.io

\* A variant that makes the two tests in the other order.
DataPathWidth_SixteenLast(flags) ==
    LET a0 == IO_DATA_PATH_WIDTH_AUTO
        a1 == IF BitAnd(flags, CISTPL_IO_16BIT) = 0 THEN IO_DATA_PATH_WIDTH_8 ELSE a0
        a2 == IF BitAnd(flags, CISTPL_IO_8BIT) = 0 THEN IO_DATA_PATH_WIDTH_16 ELSE a1
    IN  a2

\* Attributes1 = AUTO; if 8-bit is not supported, 16; if 16-bit is not
\* supported, 8: three assignments, of which the last made stands.
DataPathWidth(flags) ==
    LET a0 == IO_DATA_PATH_WIDTH_AUTO
        a1 == IF BitAnd(flags, CISTPL_IO_8BIT) = 0 THEN IO_DATA_PATH_WIDTH_16 ELSE a0
        a2 == IF BitAnd(flags, CISTPL_IO_16BIT) = 0 THEN IO_DATA_PATH_WIDTH_8 ELSE a1
    IN  a2

\* IO window settings, up to the reservation.
SetIo(p_dev, cfg, dflt) ==
    LET cleared == [p_dev.io EXCEPT !.NumPorts1 = 0, !.NumPorts2 = 0]
        io == ChosenIo(cfg, dflt)
        one == [cleared EXCEPT !.Attributes1 = DataPathWidth(io.flags),
                               !.IOAddrLines = BitAnd(io.flags, CISTPL_IO_LINES_MASK),
                               !.BasePort1 = io.win[1].base,
                               !.NumPorts1 = io.win[1].len]
        two == [one EXCEPT !.Attributes2 = one.Attributes1,
                           !.BasePort2 = io.win[2].base,
                           !.NumPorts2 = io.win[2].len]
    IN  [p_dev EXCEPT !.io = IF cfg.io.nwin > 0 \/ dflt.io.nwin > 0
                             THEN (IF io.nwin > 1 THEN two ELSE one)
                             ELSE cleared]

\* The ranges a request for io asks the bus for.
Ranges(io) ==
    (IF io.NumPorts1 > 0 THEN {<<io.BasePort1, io.NumPorts1>>} ELSE {})
        \cup (IF io.NumPorts2 > 0 THEN {<<io.BasePort2, io.NumPorts2>>} ELSE {})

\* pcmcia_request_io(): the bus grants the ranges unless one is occupied or
\* the device already holds a reservation.
RequestIoGranted(bus, io, busy) ==
    /\ bus.io = {}
    /\ \A r \in Ranges(io) : r[1] \notin busy

\* pcmcia_disable_device(): the configuration, the I/O reservation and the
\* interrupt line are given back.
pcmcia_disable_device(bus) == NoBus

\* The function's outcome: its return value, the device, the bus, and the
\* calls it made to the bus, in order.
CheckResult(ret, p_dev, bus, calls) ==
    [ret |-> ret, p_dev |-> p_dev, bus |-> bus, calls |-> calls]

\* next_entry: pcmcia_disable_device(p_dev); return -ENODEV.
next_entry(p_dev, bus, calls) ==
    CheckResult(-ENODEV, p_dev, pcmcia_disable_device(bus),
                Append(calls, <<"pcmcia_disable_device">>))

\* A variant in which a refused I/O reservation does not reject the entry.
request_io_Unchecked(d, bus, ok) ==
    CheckResult(0, d, IF ok THEN [bus EXCEPT !.io = Ranges(d.io)] ELSE bus,
                << <<"pcmcia_request_io", Ranges(d.io), ok>> >>)

\* if (pcmcia_request_io(p_dev, &p_dev->io) != 0) goto next_entry; return 0.
request_io(d, bus, ok) ==
    IF ok
    THEN CheckResult(0, d, [bus EXCEPT !.io = Ranges(d.io)],
                     << <<"pcmcia_request_io", Ranges(d.io), TRUE>> >>)
    ELSE next_entry(d, bus, << <<"pcmcia_request_io", Ranges(d.io), FALSE>> >>)

\* The device d has its I/O windows set: reserve them if any was declared.
config_check_reserve(d, cfg, dflt, bus, busy) ==
    IF cfg.io.nwin > 0 \/ dflt.io.nwin > 0
    THEN request_io(d, bus, RequestIoGranted(bus, d.io, busy))
    ELSE CheckResult(0, d, bus, <<>>)

\* IO window settings and "This reserves IO space but doesn't actually enable it".
config_check_io(p_dev, cfg, dflt, bus, busy) ==
    config_check_reserve(SetIo(p_dev, cfg, dflt), cfg, dflt, bus, busy)

\* A variant without the test of the entry's index.
spectrum_cs_config_check_NoIndexCheck(p_dev, cfg, dflt, vcc, ignore, bus, busy) ==
    IF VccRejects(cfg, dflt, vcc, ignore) THEN next_entry(p_dev, bus, <<>>)
    ELSE config_check_io(SetVpp(p_dev, cfg, dflt), cfg, dflt, bus, busy)

spectrum_cs_config_check(p_dev, cfg, dflt, vcc, ignore, bus, busy) ==
    IF cfg.index = 0 THEN next_entry(p_dev, bus, <<>>)
    ELSE IF VccRejects(cfg, dflt, vcc, ignore) THEN next_entry(p_dev, bus, <<>>)
    ELSE config_check_io(SetVpp(p_dev, cfg, dflt), cfg, dflt, bus, busy)

(***************************************************************************)
(* pcmcia_loop_config(link, spectrum_cs_config_check, NULL): the bus calls *)
(* the check on each entry of the table in order until one returns 0.      *)
(* The outcome adds the position of the accepted entry (0: none) and the   *)
(* number of entries the check was called on.                              *)
(***************************************************************************)
LoopResult(ret, p_dev, bus, calls, selected, examined) ==
    [ret |-> ret, p_dev |-> p_dev, bus |-> bus, calls |-> calls,
     selected |-> selected, examined |-> examined]

RECURSIVE loop_from(_, _, _, _, _, _, _, _, _)
\* The check returned r on entry i: stop on 0, go on to the next entry otherwise.
loop_checked(i, table, dflt, vcc, ignore, busy, calls, r) ==
    IF r.ret = 0
    THEN LoopResult(0, r.p_dev, r.bus, calls \o << <<"config_check", i>> >> \o r.calls, i, i)
    ELSE loop_from(i + 1, table, dflt, vcc, ignore, busy, r.p_dev, r.bus,
                   calls \o << <<"config_check", i>> >> \o r.calls)

loop_from(i, table, dflt, vcc, ignore, busy, p_dev, bus, calls) ==
    IF i > Len(table)
    THEN LoopResult(-ENODEV, p_dev, bus, calls, 0, Len(table))
    ELSE loop_checked(i, table, dflt, vcc, ignore, busy, calls,
                      spectrum_cs_config_check(p_dev, table[i], dflt, vcc, ignore, bus, busy))

pcmcia_loop_config(table, dflt, vcc, ignore, busy, p_dev, bus) ==
    loop_from(1, table, dflt, vcc, ignore, busy, p_dev, bus, <<>>)

(***************************************************************************)
(* The attachment: probe, config, release, detach, suspend, resume.        *)
(*                                                                         *)
(* An attachment is                                                        *)
(*   [priv : "none" | "live" | "freed"   the orinoco_private of the link,  *)
(*    frees                              free_orinocodev() calls on it,    *)
(*    hw_unavailable                     priv->hw_unavailable,             *)
(*    iobase                             priv->hw.iobase (0: NULL),        *)
(*    mapped                             the register window is mapped,    *)
(*    unmaps                             ioport_unmap() calls,             *)
(*    p_dev, bus                         as for the scan,                  *)
(*    dev_node                           link->dev_node is set,            *)
(*    netdev                             the interface is registered,      *)
(*    if_dels                            orinoco_if_del() calls]           *)
(* and the environment of one probe is                                     *)
(*   [alloc_ok, table, dflt, vcc, ignore, busy, irq_ok, map_ok, conf_ok,   *)
(*    present, reset_fail, init_ok, ifadd_ok].                             *)
(***************************************************************************)
\* ENOMEM of <linux/errno.h>.
ENOMEM == 12
\* The cookie ioport_map() returns for the device's window.
MEM_COOKIE == 1

NoAttachment ==
    [priv |-> "none", frees |-> 0, hw_unavailable |-> 0, iobase |-> 0,
     mapped |-> FALSE, unmaps |-> 0, p_dev |-> NoDevice, bus |-> NoBus,
     dev_node |-> FALSE, netdev |-> FALSE, if_dels |-> 0]

\* What a handler leaves: its return value, the attachment and its calls.
Outcome(ret, att, calls) == [ret |-> ret, att |-> att, calls |-> calls]

\* alloc_orinocodev(): a zeroed orinoco_private that is unavailable until
\* orinoco_init() has run.
alloc_orinocodev(att) ==
    [att EXCEPT !.priv = "live", !.hw_unavailable = 1, !.iobase = 0]
\* free_orinocodev()
free_orinocodev(att) == [att EXCEPT !.priv = "freed", !.frees = @ + 1]
\* orinoco_init(): on success the hardware becomes available.
orinoco_init(att) == [att EXCEPT !.hw_unavailable = @ - 1]
\* orinoco_if_add() and orinoco_if_del()
orinoco_if_add(att) == [att EXCEPT !.netdev = TRUE]
orinoco_if_del(att) == [att EXCEPT !.netdev = FALSE, !.if_dels = @ + 1]
\* orinoco_down() and a successful orinoco_up()
orinoco_down(att) == [att EXCEPT !.hw_unavailable = @ + 1]
orinoco_up(att) == [att EXCEPT !.hw_unavailable = @ - 1]

(***************************************************************************)
(* spectrum_cs_release(link), statement by statement.                      *)
(***************************************************************************)
\* A variant that unmaps the register window before anything else.
ReleaseSteps_UnmapFirst ==
    << "ioport_unmap", "spin_lock_irqsave", "hw_unavailable++",
       "spin_unlock_irqrestore", "pcmcia_disable_device" >>

ReleaseSteps ==
    << "spin_lock_irqsave", "hw_unavailable++", "spin_unlock_irqrestore",
       "pcmcia_disable_device", "ioport_unmap" >>

\* ioport_unmap(priv->hw.iobase)
ioport_unmap(att) == [att EXCEPT !.mapped = FALSE, !.unmaps = @ + 1]

\* A variant that unmaps without testing priv->hw.iobase.
ReleaseStep_Unguarded(name, att) ==
    CASE name = "hw_unavailable++" -> [att EXCEPT !.hw_unavailable = @ + 1]
      [] name = "pcmcia_disable_device" -> [att EXCEPT !.bus = pcmcia_disable_device(@)]
      [] name = "ioport_unmap" -> ioport_unmap(att)
      [] OTHER -> att

\* The effect of one statement of release on the attachment.
ReleaseStep(name, att) ==
    CASE name = "hw_unavailable++" -> [att EXCEPT !.hw_unavailable = @ + 1]
      [] name = "pcmcia_disable_device" -> [att EXCEPT !.bus = pcmcia_disable_device(@)]
      [] name = "ioport_unmap" -> IF att.iobase # 0 THEN ioport_unmap(att) ELSE att
      [] OTHER -> att

\* The calls one statement of release makes.
ReleaseCalls(name, att) ==
    CASE name = "pcmcia_disable_device" -> << <<"pcmcia_disable_device">> >>
      [] name = "ioport_unmap" -> IF att.iobase # 0 THEN << <<"ioport_unmap">> >> ELSE <<>>
      [] name = "hw_unavailable++" -> << <<"hw_unavailable++">> >>
      [] OTHER -> <<>>

RECURSIVE release_from(_, _, _)
release_from(i, att, calls) ==
    IF i > Len(ReleaseSteps) THEN Outcome(0, att, calls)
    ELSE release_from(i + 1, ReleaseStep(ReleaseSteps[i], att),
                      calls \o ReleaseCalls(ReleaseSteps[i], att))

\* The record of the call keeps the attachment release was entered with.
spectrum_cs_release(att) == release_from(1, att, << <<"spectrum_cs_release", att>> >>)

(***************************************************************************)
(* spectrum_cs_config(link)                                                *)
(***************************************************************************)
\* failed: spectrum_cs_release(link); return -ENODEV.
released_failed(calls, r) == Outcome(-ENODEV, r.att, calls \o r.calls)
config_failed(att, calls) == released_failed(calls, spectrum_cs_release(att))

\* cs_failed: cs_error(link, last_fn, last_ret); then failed.
config_cs_failed(att, calls, last_fn) ==
    config_failed(att, Append(calls, <<"cs_error", last_fn>>))

\* The registers of the card being attached.
CardRegs == [cor |-> 65, ccsr |-> 16]

\* spectrum_reset(link, 0); return 0.
hard_reset_return(r) == [ret |-> 0, reset |-> r]

\* spectrum_cs_hard_reset(priv)
spectrum_cs_hard_reset(env) ==
    hard_reset_return(spectrum_reset(env.present, FALSE, CardRegs, 0, env.reset_fail, 1))

\* Register an interface with the stack, then set link->dev_node.
config_if_add(att, env, calls) ==
    IF ~env.ifadd_ok
    THEN config_failed(att, Append(calls, <<"orinoco_if_add", FALSE>>))
    ELSE Outcome(0, [orinoco_if_add(att) EXCEPT !.dev_node = TRUE],
                 calls \o << <<"orinoco_if_add", TRUE>>, <<"dev_node">> >>)

\* Initialise the main driver.
config_init(att, env, calls) ==
    IF ~env.init_ok
    THEN config_failed(att, Append(calls, <<"orinoco_init", FALSE>>))
    ELSE config_if_add(orinoco_init(att), env, Append(calls, <<"orinoco_init", TRUE>>))

\* if (spectrum_cs_hard_reset(priv) != 0) goto failed.
config_hard_reset_done(att, env, calls, h) ==
    IF h.ret # 0
    THEN config_failed(att, Append(calls, <<"spectrum_reset", FALSE, h.reset.ret>>))
    ELSE config_init(att, env, Append(calls, <<"spectrum_reset", FALSE, h.reset.ret>>))

\* Reset card.
config_reset(att, env, calls) ==
    config_hard_reset_done(att, env, calls, spectrum_cs_hard_reset(env))

\* This actually configures the PCMCIA socket.
config_request_configuration(att, env, calls) ==
    IF ~env.conf_ok
    THEN config_cs_failed(att, Append(calls, <<"pcmcia_request_configuration", FALSE>>),
                          "RequestConfiguration")
    ELSE config_reset([att EXCEPT !.bus.conf = TRUE], env,
                      Append(calls, <<"pcmcia_request_configuration", TRUE>>))

\* mem = ioport_map(...); hermes_struct_init(hw, mem, ...).
config_map(att, env, calls) ==
    IF ~env.map_ok
    THEN config_cs_failed(att, Append(calls, <<"ioport_map", FALSE>>), "RequestIRQ")
    ELSE config_request_configuration(
             [att EXCEPT !.mapped = TRUE, !.iobase = MEM_COOKIE], env,
             calls \o << <<"ioport_map", TRUE>>, <<"hermes_struct_init">> >>)

\* Allocate an interrupt line.
config_request_irq(att, env, calls) ==
    IF ~env.irq_ok
    THEN config_cs_failed(att, Append(calls, <<"pcmcia_request_irq", FALSE>>), "RequestIRQ")
    ELSE config_map([att EXCEPT !.bus.irq = TRUE], env,
                    Append(calls, <<"pcmcia_request_irq", TRUE>>))

\* last_ret = pcmcia_loop_config(...): on failure cs_error() and failed.
config_scanned(att, env, scan) ==
    IF scan.ret # 0
    THEN config_failed([att EXCEPT !.p_dev = scan.p_dev, !.bus = scan.bus],
                       << <<"pcmcia_loop_config", scan.ret>>, <<"cs_error", "RequestIO">> >>)
    ELSE config_request_irq([att EXCEPT !.p_dev = scan.p_dev, !.bus = scan.bus], env,
                            << <<"pcmcia_loop_config", scan.ret>> >>)

spectrum_cs_config(att, env) ==
    config_scanned(att, env,
                   pcmcia_loop_config(env.table, env.dflt, env.vcc, env.ignore, env.busy,
                                      att.p_dev, att.bus))

(***************************************************************************)
(* The entry points the bus calls.                                         *)
(***************************************************************************)
\* return spectrum_cs_config(link)
probe_return(r) == Outcome(r.ret, r.att, << <<"alloc_orinocodev", TRUE>> >> \o r.calls)

\* link->priv = priv: the link points at a new orinoco_private.  What the
\* link itself holds stays as the attachment before left it: conf, io and
\* dev_node, which nothing in this file clears.
NewAttachment(link) ==
    [NoAttachment EXCEPT !.p_dev = link.p_dev, !.bus = link.bus,
                         !.dev_node = link.dev_node]

\* link->conf.Attributes = 0
probe_setup(att) == [att EXCEPT !.p_dev.Attributes = {}]

spectrum_cs_probe(link, env) ==
    IF ~env.alloc_ok
    THEN Outcome(-ENOMEM, link, << <<"alloc_orinocodev", FALSE>> >>)
    ELSE probe_return(spectrum_cs_config(
             probe_setup(alloc_orinocodev(NewAttachment(link))), env))

\* spectrum_cs_release(link); free_orinocodev(priv).
detach_released(calls, r) ==
    Outcome(0, free_orinocodev(r.att), calls \o r.calls \o << <<"free_orinocodev">> >>)

\* A variant that never unregisters the interface.
spectrum_cs_detach_NeverDel(att) ==
    detach_released(<<>>, spectrum_cs_release(att))

\* if (link->dev_node) orinoco_if_del(priv); then release and free.
spectrum_cs_detach(att) ==
    IF att.dev_node
    THEN detach_released(<< <<"orinoco_if_del">> >>, spectrum_cs_release(orinoco_if_del(att)))
    ELSE detach_released(<<>>, spectrum_cs_release(att))

\* orinoco_down(priv); return 0.
spectrum_cs_suspend(att) ==
    Outcome(0, orinoco_down(att), << <<"orinoco_down">> >>)

\* A variant that reports success whatever orinoco_up() returned.
spectrum_cs_resume_Swallow(att, up_err) ==
    Outcome(0, IF up_err = 0 THEN orinoco_up(att) ELSE att,
            << <<"orinoco_up", up_err>> >>)

\* int err = orinoco_up(priv); return err.
spectrum_cs_resume(att, up_err) ==
    Outcome(up_err, IF up_err = 0 THEN orinoco_up(att) ELSE att,
            << <<"orinoco_up", up_err>> >>)

(***************************************************************************)
(* Inputs of the reset sequencer.                                          *)
(***************************************************************************)
\* Contents of the configuration-option register: every combination of the
\* soft reset bit (0x80), the level-request bit (0x40) and a configuration
\* index (0x01, 0x3F), and the extremes.
CorValues == {0, 1, 65, 63, 128, 129, 193, 255}
\* Contents of the configuration/status register: the memory width bit
\* (0x10) with and without the run and idle encodings and foreign bits.
CcsrValues == {0, 7, 14, 16, 23, 30, 225, 239, 241, 255}
\* Nonzero codes pcmcia_access_configuration_register() may return.
FailCodes == {1, 20}
\* The accesses of one reset, numbered as they are issued.
ResetSteps == 1..5

(***************************************************************************)
(* Inputs of the CIS scan.                                                 *)
(***************************************************************************)
\* The longest configuration table scanned.
MaxEntries == 2

Power(present, param) == [present |-> present, param |-> param]
Win(base, len) == [base |-> base, len |-> len]
Io(nwin, flags, w1, w2) == [nwin |-> nwin, flags |-> flags, win |-> <<w1, w2>>]
Entry(index, vcc, vpp1, io) == [index |-> index, vcc |-> vcc, vpp1 |-> vpp1, io |-> io]

NoPower == Power(0, 0)
V50 == Power(1, 500000)      \* 5.0 V nominal
V50hi == Power(1, 509999)    \* rescales to 50 as well
V33 == Power(1, 330000)      \* 3.3 V nominal
VminOnly == Power(2, 330000) \* a minimum voltage and no nominal one
P12 == Power(1, 1200000)
P5 == Power(1, 500000)
IoNone == Io(0, 0, Win(0, 0), Win(0, 0))
\* One window at 0x300 or 0x310, with each combination of the width flags
\* (0x20: 8-bit, 0x40: 16-bit) over 4 address lines; two windows.
Io16At300 == Io(1, 68, Win(768, 16), Win(0, 0))
Io8At300 == Io(1, 36, Win(768, 16), Win(0, 0))
IoBothAt310 == Io(1, 100, Win(784, 16), Win(0, 0))
IoNeitherAt310 == Io(1, 4, Win(784, 8), Win(0, 0))
IoTwo == Io(2, 100, Win(768, 16), Win(784, 8))

CisEntries ==
    { Entry(0, V50, P12, IoBothAt310),
      Entry(1, V50, NoPower, Io16At300),
      Entry(1, V33, P12, Io8At300),
      Entry(1, NoPower, NoPower, IoNone),
      Entry(2, NoPower, P5, IoTwo),
      Entry(2, V50hi, P12, IoNeitherAt310),
      Entry(1, V33, NoPower, IoNone),
      Entry(2, VminOnly, P12, IoBothAt310) }
\* The table's default entry: one that declares nothing, one that declares
\* everything, one that declares a voltage only.
CisDefaults ==
    { Entry(0, NoPower, NoPower, IoNone),
      Entry(0, V50, P5, Io16At300),
      Entry(0, V33, NoPower, IoNone) }
CisTables == UNION { [1..n -> CisEntries] : n \in 0..MaxEntries }
\* The socket's Vcc in tenths of a volt.
SocketVcc == {33, 50}
\* The base ports another device may occupy.
BusyPorts == SUBSET {768, 784}

(***************************************************************************)
(* Inputs of the attachment.                                               *)
(***************************************************************************)
\* The number of times the card is probed.
MaxProbes == 2
\* The step of a probe that the environment makes fail first ("none": no
\* step); the steps after it are not reached.  The reset fails on its own
\* account, see ProbeEnvs.
FailingSteps == {"none", "alloc", "irq", "map", "conf", "init", "ifadd"}
\* What the scan of a probe meets, as <<table, ignore_cis_vcc, busy ports>>:
\* an empty table; an entry that fits the 5 V socket, with its ports free
\* and occupied; a 3.3 V entry without and with the override; an index-0
\* entry followed by a two-window entry.
ProbeScans ==
    { << <<>>, FALSE, {} >>,
      << << Entry(1, V50, NoPower, Io16At300) >>, FALSE, {} >>,
      << << Entry(1, V50, NoPower, Io16At300) >>, FALSE, {768} >>,
      << << Entry(1, V33, P12, Io8At300) >>, FALSE, {} >>,
      << << Entry(1, V33, P12, Io8At300) >>, TRUE, {} >>,
      << << Entry(0, V50, P12, IoBothAt310), Entry(2, NoPower, P5, IoTwo) >>, FALSE, {} >> }
ProbeEnv(stop, scan, present, reset_fail) ==
    [alloc_ok |-> stop # "alloc", table |-> scan[1],
     dflt |-> Entry(0, NoPower, NoPower, IoNone), vcc |-> 50,
     ignore |-> scan[2], busy |-> scan[3],
     irq_ok |-> stop # "irq", map_ok |-> stop # "map", conf_ok |-> stop # "conf",
     present |-> present, reset_fail |-> reset_fail,
     init_ok |-> stop # "init", ifadd_ok |-> stop # "ifadd"]
\* The card is present and its registers answer, unless the probe gets as
\* far as the reset: then it may be absent, or any one access may fail.
ProbeEnvs ==
    { ProbeEnv(stop, scan, TRUE, 0) :
        stop \in {"alloc", "irq", "map", "conf"}, scan \in ProbeScans }
    \cup { ProbeEnv(stop, scan, FALSE, 0) :
        stop \in {"none", "init", "ifadd"}, scan \in ProbeScans }
    \cup { ProbeEnv(stop, scan, TRUE, reset_fail) :
        stop \in {"none", "init", "ifadd"}, scan \in ProbeScans,
        reset_fail \in {0} \cup ResetSteps }
\* conf and io of the link at the start of a scan: of a link never attached,
\* and of one whose attachment before resolved a Vpp and two windows.
LinkDevices ==
    { probe_setup(NewAttachment(link)).p_dev :
        link \in { NoAttachment,
                   spectrum_cs_probe(NoAttachment,
                       ProbeEnv("none",
                                << << Entry(2, NoPower, P5, IoTwo) >>, FALSE, {} >>,
                                TRUE, 0)).att } }
\* The interrupts taken while one release runs.
MaxIrqs == 2
\* What orinoco_up() may return.
UpResults == {0, -ENODEV}

VARIABLES
    r_pc,       \* "call": spectrum_reset is about to run; "done": it returned
    r_present,  \* pcmcia_dev_present(link)
    r_idle,     \* the idle argument
    r_regs,     \* the card's registers before the call: [cor, ccsr]
    r_fail,     \* the access the bus refused (0: none), once done
    r_pulse,    \* what the soft reset pulse left in CCSR, once done
    r_out,      \* ResetResult of the call, once done
    s_pc,       \* "call": the scan is about to run; "done": it returned
    s_table,    \* the configuration table entries, in CIS order
    s_dflt,     \* the table's default entry
    s_vcc,      \* the socket's Vcc
    s_ignore,   \* ignore_cis_vcc
    s_busy,     \* the base ports occupied on the bus
    s_dev,      \* conf and io of the link when the scan starts
    s_out,      \* LoopResult of the scan, once done
    a_life,     \* "unattached", "running" or "suspended": what the bus holds
    a_att,      \* the attachment of the last probe
    a_last,     \* the last entry point called: [op, ret, calls, env]
    a_probes,   \* probes so far
    a_leaked,   \* orinoco_private structures no entry point can reach any more
    i_att,      \* the attachment being released
    i_rel,      \* the statement of ReleaseSteps that release executes next
    i_lock,     \* who holds priv->lock: "free", "release" or "irq"
    i_irq,      \* the interrupt handler: "idle", "locked" or "access"
    i_irqs,     \* interrupts taken so far
    i_touched,  \* register accesses the handler made
    i_bad       \* the handler accessed a window that was not mapped

rvars == <<r_pc, r_present, r_idle, r_regs, r_fail, r_pulse, r_out>>
svars == <<s_pc, s_table, s_dflt, s_vcc, s_ignore, s_busy, s_dev, s_out>>
avars == <<a_life, a_att, a_last, a_probes, a_leaked>>
ivars == <<i_att, i_rel, i_lock, i_irq, i_irqs, i_touched, i_bad>>
vars == <<rvars, svars, avars, ivars>>

NoResult == ResetResult(0, <<>>, <<>>, [cor |-> 0, ccsr |-> 0])
NoScan == LoopResult(0, NoDevice, NoBus, <<>>, 0, 0)

\* The parts of the state a specification does not use stay as they are here.
ResetUnused ==
    /\ r_pc = "unused" /\ r_present = FALSE /\ r_idle = FALSE
    /\ r_regs = [cor |-> 0, ccsr |-> 0]
    /\ r_fail = 0 /\ r_pulse = 0 /\ r_out = NoResult
ScanUnused ==
    /\ s_pc = "unused" /\ s_table = <<>> /\ s_dflt = Entry(0, NoPower, NoPower, IoNone)
    /\ s_vcc = 0 /\ s_ignore = FALSE /\ s_busy = {} /\ s_dev = NoDevice /\ s_out = NoScan

NoEnv == ProbeEnv("none", << <<>>, FALSE, {} >>, TRUE, 0)
Event(op, ret, calls, env) == [op |-> op, ret |-> ret, calls |-> calls, env |-> env]
AttachUnused ==
    /\ a_life = "unused" /\ a_att = NoAttachment
    /\ a_last = Event("none", 0, <<>>, NoEnv)
    /\ a_probes = 0 /\ a_leaked = 0

IrqUnused ==
    /\ i_att = NoAttachment /\ i_rel = 0 /\ i_lock = "unused" /\ i_irq = "unused"
    /\ i_irqs = 0 /\ i_touched = 0 /\ i_bad = FALSE

ResetInit ==
    /\ r_pc = "call"
    /\ r_present \in BOOLEAN
    /\ r_idle \in BOOLEAN
    /\ r_regs \in [cor : CorValues, ccsr : CcsrValues]
    /\ r_fail = 0
    /\ r_pulse = 0
    /\ r_out = NoResult
    /\ ScanUnused
    /\ AttachUnused
    /\ IrqUnused

\* One call of spectrum_reset(link, idle), start to return.
ResetCall ==
    /\ r_pc = "call"
    /\ \E pulse \in CcsrValues, fail \in {0} \cup ResetSteps, code \in FailCodes :
          /\ r_fail' = fail
          /\ r_pulse' = pulse
          /\ r_out' = spectrum_reset(r_present, r_idle, r_regs, pulse, fail, code)
    /\ r_pc' = "done"
    /\ UNCHANGED <<r_present, r_idle, r_regs, svars, avars, ivars>>

SpecReset == ResetInit /\ [][ResetCall]_vars

ScanInit ==
    /\ s_pc = "call"
    /\ s_table \in CisTables
    /\ s_dflt \in CisDefaults
    /\ s_vcc \in SocketVcc
    /\ s_ignore \in BOOLEAN
    /\ s_busy \in BusyPorts
    /\ s_dev \in LinkDevices
    /\ s_out = NoScan
    /\ ResetUnused
    /\ AttachUnused
    /\ IrqUnused

\* One scan of the table, as spectrum_cs_config starts it after probe.
ScanCall ==
    /\ s_pc = "call"
    /\ s_out' = pcmcia_loop_config(s_table, s_dflt, s_vcc, s_ignore, s_busy, s_dev, NoBus)
    /\ s_pc' = "done"
    /\ UNCHANGED <<s_table, s_dflt, s_vcc, s_ignore, s_busy, s_dev, rvars, avars, ivars>>

SpecScan == ScanInit /\ [][ScanCall]_vars

(***************************************************************************)
(* The life of a card: the bus probes it, may suspend and resume it while  *)
(* it is bound, and detaches it.  A probe that fails leaves the card       *)
(* unbound: the bus calls no other entry point for it.                     *)
(***************************************************************************)
Init ==
    /\ a_life = "unattached"
    /\ a_att = NoAttachment
    /\ a_last = Event("none", 0, <<>>, NoEnv)
    /\ a_probes = 0
    /\ a_leaked = 0
    /\ ResetUnused
    /\ ScanUnused
    /\ IrqUnused

\* The handler returned r: the attachment it leaves and what it did.
Returned(op, r, env) ==
    /\ a_att' = r.att
    /\ a_last' = Event(op, r.ret, r.calls, env)

ProbeReturned(r, env) ==
    /\ Returned("probe", r, env)
    /\ a_life' = IF r.ret = 0 THEN "running" ELSE "unattached"
    /\ a_leaked' = IF r.ret # 0 /\ env.alloc_ok /\ r.att.priv = "live"
                   THEN a_leaked + 1 ELSE a_leaked

Probe ==
    /\ a_life = "unattached"
    /\ a_probes < MaxProbes
    /\ \E env \in ProbeEnvs : ProbeReturned(spectrum_cs_probe(a_att, env), env)
    /\ a_probes' = a_probes + 1
    /\ UNCHANGED <<rvars, svars, ivars>>

Detach ==
    /\ a_life \in {"running", "suspended"}
    /\ Returned("detach", spectrum_cs_detach(a_att), a_last.env)
    /\ a_life' = "unattached"
    /\ UNCHANGED <<a_probes, a_leaked, rvars, svars, ivars>>

Suspend ==
    /\ a_life = "running"
    /\ Returned("suspend", spectrum_cs_suspend(a_att), a_last.env)
    /\ a_life' = "suspended"
    /\ UNCHANGED <<a_probes, a_leaked, rvars, svars, ivars>>

\* The bus keeps the device suspended when resume reports an error.
Resume ==
    /\ a_life = "suspended"
    /\ \E err \in UpResults :
          /\ Returned("resume", spectrum_cs_resume(a_att, err), a_last.env)
          /\ a_life' = IF err = 0 THEN "running" ELSE "suspended"
    /\ UNCHANGED <<a_probes, a_leaked, rvars, svars, ivars>>

Next == Probe \/ Detach \/ Suspend \/ Resume

Spec == Init /\ [][Next]_vars

(***************************************************************************)
(* Release against the interrupt handler.  Release runs statement by       *)
(* statement on an attachment whose window is mapped: one that is running, *)
(* one that is suspended, and one whose interface registration has just    *)
(* failed.  The radio driver's handler may be entered at any time: it      *)
(* takes priv->lock, returns if hw_unavailable is set, and touches the     *)
(* registers through the window otherwise, before it drops the lock.       *)
(***************************************************************************)
\* The attachments spectrum_cs_release() was entered with, as an outcome
\* records them.
ReleaseEntries(r) ==
    {c[2] : c \in {d \in {r.calls[k] : k \in 1..Len(r.calls)} : d[1] = "spectrum_cs_release"}}
\* The attachments a first probe binds, the links a probe may find (one
\* never attached, and one that was attached and detached), the outcomes of
\* a probe of each, and the attachments bound.
FirstAttachments ==
    {r.att : r \in {p \in {spectrum_cs_probe(NoAttachment, env) : env \in ProbeEnvs} :
                        p.ret = 0}}
ProbeLinks == {NoAttachment} \cup {spectrum_cs_detach(a).att : a \in FirstAttachments}
ProbedAttachments ==
    {spectrum_cs_probe(link, env) : link \in ProbeLinks, env \in ProbeEnvs}
BoundAttachments == {r.att : r \in {p \in ProbedAttachments : p.ret = 0}}
\* Release is entered from a configure that failed, and from the detach of
\* a running or of a suspended attachment.
IrqStarts ==
    UNION {ReleaseEntries(r) : r \in ProbedAttachments}
        \cup UNION {ReleaseEntries(spectrum_cs_detach(a)) : a \in BoundAttachments}
        \cup UNION {ReleaseEntries(spectrum_cs_detach(spectrum_cs_suspend(a).att)) :
                       a \in BoundAttachments}

IrqInit ==
    /\ i_att \in IrqStarts
    /\ i_rel = 1
    /\ i_lock = "free"
    /\ i_irq = "idle"
    /\ i_irqs = 0
    /\ i_touched = 0
    /\ i_bad = FALSE
    /\ ResetUnused
    /\ ScanUnused
    /\ AttachUnused

\* The next statement of spectrum_cs_release().
ReleaseStatement ==
    /\ i_rel \in 1..Len(ReleaseSteps)
    /\ ReleaseSteps[i_rel] = "spin_lock_irqsave" => i_lock = "free"
    /\ i_lock' = CASE ReleaseSteps[i_rel] = "spin_lock_irqsave" -> "release"
                   [] ReleaseSteps[i_rel] = "spin_unlock_irqrestore" -> "free"
                   [] OTHER -> i_lock
    /\ i_att' = ReleaseStep(ReleaseSteps[i_rel], i_att)
    /\ i_rel' = i_rel + 1
    /\ UNCHANGED <<i_irq, i_irqs, i_touched, i_bad, rvars, svars, avars>>

\* orinoco_interrupt(): the handler takes the lock.
IrqEnter ==
    /\ i_irq = "idle"
    /\ i_irqs < MaxIrqs
    /\ i_lock = "free"
    /\ i_lock' = "irq"
    /\ i_irq' = "locked"
    /\ i_irqs' = i_irqs + 1
    /\ UNCHANGED <<i_att, i_rel, i_touched, i_bad, rvars, svars, avars>>

\* The handler reads hw_unavailable: set, it drops the lock and returns.
IrqCheck ==
    /\ i_irq = "locked"
    /\ i_irq' = IF i_att.hw_unavailable > 0 THEN "idle" ELSE "access"
    /\ i_lock' = IF i_att.hw_unavailable > 0 THEN "free" ELSE i_lock
    /\ UNCHANGED <<i_att, i_rel, i_irqs, i_touched, i_bad, rvars, svars, avars>>

\* The handler reads and writes registers through priv->hw.iobase, then
\* drops the lock.
IrqAccess ==
    /\ i_irq = "access"
    /\ i_touched' = i_touched + 1
    /\ i_bad' = (i_bad \/ ~i_att.mapped)
    /\ i_irq' = "idle"
    /\ i_lock' = "free"
    /\ UNCHANGED <<i_att, i_rel, i_irqs, rvars, svars, avars>>

IrqNext == ReleaseStatement \/ IrqEnter \/ IrqCheck \/ IrqAccess

SpecIrq == IrqInit /\ [][IrqNext]_vars

(***************************************************************************)
(* The reset sequencer's claims, checked under SpecReset.                  *)
(***************************************************************************)
\* Bit m (a power of two) of v, read arithmetically.
BitOf(v, m) == (v \div m) % 2
ResetDone == r_pc = "done"
ResetSucceeded == ResetDone /\ r_present /\ r_out.ret = 0
IsAccess(e) == e.op # "udelay"
AccessesOf(trace) == SelectSeq(trace, IsAccess)

\* C5: a reset (idle or not) on a device that reports absent fails at once
\* with the device-absent error (-ENODEV) and performs no register read, no
\* register write and no settle delay.
C5_AbsentNoRegisterIO ==
    (ResetDone /\ ~r_present) =>
        /\ r_out.ret = -ENODEV
        /\ r_out.trace = <<>>
        /\ r_out.report = <<>>
        /\ r_out.regs = r_regs
C5_Witness == ResetDone /\ ~r_present /\ r_idle /\ r_out.ret = -ENODEV

\* C6: a successful reset performs exactly five register accesses, in the
\* order read COR, write COR with the soft reset bit set, read CCSR, write
\* CCSR, write COR with the soft reset bit cleared, and a 1 ms delay follows
\* each of the three writes before the next access or the return.
C6_Shape ==
    << <<"CS_READ", "CISREG_COR">>, <<"CS_WRITE", "CISREG_COR">>, <<"udelay", "-">>,
       <<"CS_READ", "CISREG_CCSR">>, <<"CS_WRITE", "CISREG_CCSR">>, <<"udelay", "-">>,
       <<"CS_WRITE", "CISREG_COR">>, <<"udelay", "-">> >>
C6_ResetSequence ==
    ResetSucceeded =>
        /\ Len(r_out.trace) = Len(C6_Shape)
        /\ \A i \in 1..Len(C6_Shape) :
              /\ <<r_out.trace[i].op, r_out.trace[i].reg>> = C6_Shape[i]
              /\ r_out.trace[i].rc = 0
              /\ r_out.trace[i].op = "udelay" => r_out.trace[i].val = 1000
        /\ Len(AccessesOf(r_out.trace)) = 5
        /\ BitOf(r_out.trace[2].val, 128) = 1
        /\ BitOf(r_out.trace[7].val, 128) = 0
C6_Witness == ResetSucceeded /\ r_fail = 0 /\ Len(r_out.trace) = 8

\* C7: in a successful reset the value written to CCSR is the idle encoding
\* (idle true) or the run encoding (idle false) plus the memory width bit of
\* the CCSR value read after the soft reset pulse, not of the value CCSR held
\* before the pulse; no other bit of the value read is carried over.
C7_CcsrWritten ==
    ResetSucceeded =>
        /\ r_out.trace[4].val = r_pulse
        /\ r_out.trace[5].val =
              (IF r_idle THEN 14 ELSE 7) + 16 * BitOf(r_pulse, 16)
        /\ r_out.regs.ccsr = r_out.trace[5].val
C7_Witness ==
    /\ ResetSucceeded
    /\ r_idle
    /\ r_pulse = 255
    /\ BitOf(r_regs.ccsr, 16) = 0
    /\ r_out.trace[5].val = 30

\* C8: in a successful reset, for every initial COR value v, the last value
\* written to COR is v with the soft reset bit cleared: every other bit is as
\* before the call, and the soft reset bit is clear even when set in v.
C8_CorRestored ==
    ResetSucceeded =>
        LET writes == SelectSeq(r_out.trace,
                                LAMBDA e : e.op = "CS_WRITE" /\ e.reg = "CISREG_COR")
            last == writes[Len(writes)].val
        IN  /\ last = r_regs.cor - 128 * BitOf(r_regs.cor, 128)
            /\ \A m \in {1, 2, 4, 8, 16, 32, 64} : BitOf(last, m) = BitOf(r_regs.cor, m)
            /\ BitOf(last, 128) = 0
            /\ r_out.regs.cor = last
C8_Witness ==
    /\ ResetSucceeded
    /\ r_regs.cor = 193
    /\ r_out.regs.cor = 65

\* What the first n register accesses of an undisturbed reset are.
C9_Prefix(n) ==
    LET full == AccessesOf(spectrum_reset(TRUE, r_idle, r_regs, r_pulse, 0, 0).trace)
    IN  SubSeq(full, 1, n)
\* What the caller and the log see of a call: the return value and the
\* cs_error() report.
C9_Seen(out) == <<out.ret, out.report>>

\* C9 (as amended): if the k-th register access of a reset fails, the
\* sequence stops there: no access after the k-th, no delay after it, no
\* rollback write (COR keeps the soft reset bit once it was written); the
\* reset returns -ENODEV, the value it also returns for an absent device,
\* after cs_error() reported AccessConfigurationRegister and the code the bus
\* returned.
C9_AbortAtFailure ==
    (ResetDone /\ r_present /\ r_fail \in ResetSteps) =>
        LET t == r_out.trace
            acc == AccessesOf(t)
        IN  /\ r_out.ret = -ENODEV
            /\ Len(acc) = r_fail
            /\ t[Len(t)] = acc[r_fail]
            /\ acc[r_fail].rc # 0
            /\ r_out.report = <<"AccessConfigurationRegister", acc[r_fail].rc>>
            /\ \A i \in 1..(r_fail - 1) : acc[i] = C9_Prefix(r_fail - 1)[i]
            /\ <<acc[r_fail].op, acc[r_fail].reg>> =
                  <<C9_Prefix(r_fail)[r_fail].op, C9_Prefix(r_fail)[r_fail].reg>>
            /\ r_out.regs.cor =
                  (IF r_fail <= 2 THEN r_regs.cor
                   ELSE r_regs.cor + 128 * (1 - BitOf(r_regs.cor, 128)))
C9_Witness ==
    /\ ResetDone /\ r_present /\ r_fail = 4
    /\ r_regs.cor = 65
    /\ r_out.regs.cor = 193
    /\ Len(r_out.trace) = 5

\* C9 (as claimed): the error a failed reset returns names the step k that
\* failed, so failures at different steps are told apart by what the reset
\* reports, and a register access failure is told apart from device-absent
\* by the value returned.
C9_ErrorNamesStep ==
    (ResetDone /\ r_present /\ r_fail \in ResetSteps) =>
        /\ \A k \in ResetSteps \ {r_fail} :
              C9_Seen(spectrum_reset(TRUE, r_idle, r_regs, r_pulse, k, r_out.report[2]))
                  # C9_Seen(r_out)
        /\ r_out.ret # spectrum_reset(FALSE, r_idle, r_regs, r_pulse, 0, 0).ret

(***************************************************************************)
(* The CIS scanner's claims, checked under SpecScan.                       *)
(***************************************************************************)
ScanDone == s_pc = "done"
\* The nominal voltage that counts for an entry: its own, else the default
\* entry's, else none (-1).
EffectiveVcc(e) ==
    IF e.vcc.present % 2 = 1 THEN e.vcc.param \div 10000
    ELSE IF s_dflt.vcc.present % 2 = 1 THEN s_dflt.vcc.param \div 10000
    ELSE -1
VoltageMatches(e) == EffectiveVcc(e) \in {-1, s_vcc}
\* The base ports of the windows an entry asks for.
PortsWanted(e) ==
    LET d == IF e.io.nwin > 0 THEN e.io ELSE s_dflt.io
    IN  {d.win[k].base : k \in {k \in 1..2 : k <= d.nwin /\ d.win[k].len > 0}}
\* An entry passes all checks: index, voltage, I/O reservation.
PassesAllChecks(e) ==
    /\ e.index # 0
    /\ s_ignore \/ VoltageMatches(e)
    /\ PortsWanted(e) \cap s_busy = {}
Passing == {i \in 1..Len(s_table) : PassesAllChecks(s_table[i])}
SetMin(S) == CHOOSE x \in S : \A y \in S : x <= y
\* The positions the check was called on, in call order.
Examined == SelectSeq(s_out.calls, LAMBDA c : c[1] = "config_check")

\* C10: the scan examines the entries in sequence order and returns the
\* first entry that passes all checks (index non-zero, voltage, I/O
\* reservation) without examining a later one; a rejection of any kind, a
\* refused I/O reservation included, only skips to the next entry; the scan
\* fails exactly when the sequence is exhausted with no entry accepted.
C10_FirstPassingEntry ==
    ScanDone =>
        /\ \A k \in 1..Len(Examined) : Examined[k] = <<"config_check", k>>
        /\ Len(Examined) = s_out.examined
        /\ (s_out.ret # 0) <=> (Passing = {})
        /\ Passing = {} =>
              /\ s_out.ret = -ENODEV
              /\ s_out.selected = 0
              /\ s_out.examined = Len(s_table)
        /\ Passing # {} =>
              /\ s_out.ret = 0
              /\ s_out.selected = SetMin(Passing)
              /\ s_out.examined = s_out.selected
C10_Witness ==
    /\ ScanDone
    /\ s_out.ret = 0
    /\ s_out.selected = 2
    /\ s_table[1].index # 0
    /\ \E c \in {s_out.calls[k] : k \in 1..Len(s_out.calls)} :
          c[1] = "pcmcia_request_io" /\ c[3] = FALSE

\* The scan of the first n entries of the table.
ScanPrefix(n) ==
    pcmcia_loop_config(SubSeq(s_table, 1, n), s_dflt, s_vcc, s_ignore, s_busy,
                       s_dev, NoBus)
RequestsIo(calls) == \E c \in {calls[k] : k \in 1..Len(calls)} : c[1] = "pcmcia_request_io"

\* C11: an entry with index 0 is never selected, whatever its voltage, Vpp
\* and I/O window fields and whatever the override flag; rejecting it makes
\* no I/O reservation request and changes no field of the resolved socket
\* configuration.
C11_IndexZeroNeverSelected ==
    ScanDone =>
        \A i \in 1..Len(s_table) :
            s_table[i].index = 0 =>
                /\ s_out.selected # i
                /\ i <= s_out.examined =>
                      /\ ScanPrefix(i).ret = -ENODEV
                      /\ ScanPrefix(i).p_dev = ScanPrefix(i - 1).p_dev
                      /\ ScanPrefix(i).calls =
                            ScanPrefix(i - 1).calls
                                \o << <<"config_check", i>>, <<"pcmcia_disable_device">> >>
C11_Witness ==
    /\ ScanDone
    /\ Len(s_table) = 2
    /\ s_table[1].index = 0
    /\ s_table[1].vcc.param = 500000 /\ s_vcc = 50
    /\ s_table[1].io.nwin = 1 /\ s_busy = {}
    /\ s_out.selected = 2
    /\ ~s_ignore

\* Every entry declares, itself or through the default entry, a nominal
\* voltage other than the socket's.
AllMismatch == \A i \in 1..Len(s_table) : EffectiveVcc(s_table[i]) \notin {-1, s_vcc}

\* C12: with the override flag false, a scan in which every entry's
\* effective nominal voltage (its own, or the default entry's when it
\* declares none) differs from the requested voltage fails with -ENODEV
\* (NoMatchingConfiguration), issues no I/O reservation request and holds no
\* I/O reservation when it returns.
C12_AllMismatchFails ==
    (ScanDone /\ ~s_ignore /\ AllMismatch) =>
        /\ s_out.ret = -ENODEV
        /\ s_out.selected = 0
        /\ s_out.examined = Len(s_table)
        /\ ~RequestsIo(s_out.calls)
        /\ s_out.bus.io = {}
C12_Witness ==
    /\ ScanDone /\ ~s_ignore /\ AllMismatch
    /\ Len(s_table) = 2
    /\ s_table[1].index # 0 /\ s_table[1].vcc.present = 1
    /\ s_table[2].index # 0 /\ s_table[2].vcc.present = 0
    /\ s_out.ret = -ENODEV

\* An entry with its voltage declaration removed.
NoVcc(e) == [e EXCEPT !.vcc = [present |-> 0, param |-> 0]]
\* The entries with a non-zero index whose I/O reservation succeeds.
StructurallyValid ==
    {i \in 1..Len(s_table) :
        s_table[i].index # 0 /\ PortsWanted(s_table[i]) \cap s_busy = {}}

\* C13: with the override flag true the voltage check rejects no entry: the
\* first entry with a non-zero index whose I/O reservation succeeds is
\* selected even when its voltage mismatches, and the entry selected is the
\* one that would be selected if no voltage mismatched.
C13_OverrideIgnoresVoltage ==
    (ScanDone /\ s_ignore) =>
        /\ s_out.selected = (IF StructurallyValid = {} THEN 0 ELSE SetMin(StructurallyValid))
        /\ s_out.selected =
              pcmcia_loop_config([i \in 1..Len(s_table) |-> NoVcc(s_table[i])],
                                 NoVcc(s_dflt), s_vcc, FALSE, s_busy,
                                 s_dev, NoBus).selected
C13_Witness ==
    /\ ScanDone /\ s_ignore
    /\ s_out.selected = 1
    /\ s_table[1].vcc.present = 1
    /\ s_table[1].vcc.param \div 10000 # s_vcc
    /\ s_table[1].io.nwin = 1

\* The scan returned a match; the entry accepted and the descriptor its I/O
\* windows come from.
Accepted == ScanDone /\ s_out.ret = 0
AcceptedEntry == s_table[s_out.selected]
UsedIo == IF AcceptedEntry.io.nwin # 0 THEN AcceptedEntry.io ELSE s_dflt.io
Has8Bit(io) == BitOf(io.flags, 32) = 1
Has16Bit(io) == BitOf(io.flags, 64) = 1

\* C17 (as amended): for every accepted entry that resolves an I/O window,
\* the width attribute is auto detection when the chosen descriptor has both
\* the 8-bit and the 16-bit flag, forced 16-bit when it has the 16-bit flag
\* only, and forced 8-bit when it lacks the 16-bit flag, with or without the
\* 8-bit flag; a second window, when declared, gets the attribute of the
\* first.
C17_WidthFromFlags ==
    (Accepted /\ UsedIo.nwin > 0) =>
        /\ s_out.p_dev.io.Attributes1 =
              (IF ~Has16Bit(UsedIo) THEN IO_DATA_PATH_WIDTH_8
               ELSE IF ~Has8Bit(UsedIo) THEN IO_DATA_PATH_WIDTH_16
               ELSE IO_DATA_PATH_WIDTH_AUTO)
        /\ UsedIo.nwin > 1 => s_out.p_dev.io.Attributes2 = s_out.p_dev.io.Attributes1
C17_Witness ==
    /\ Accepted
    /\ UsedIo.nwin = 1
    /\ ~Has8Bit(UsedIo) /\ ~Has16Bit(UsedIo)
    /\ s_out.p_dev.io.Attributes1 = IO_DATA_PATH_WIDTH_8

\* C17 (as claimed): the width attribute is auto detection when both flags
\* are absent, forced 16-bit when 8-bit is unsupported, forced 8-bit when
\* 16-bit is unsupported; a second window gets the attribute of the first.
C17_WidthAsClaimed ==
    (Accepted /\ UsedIo.nwin > 0) =>
        /\ (~Has8Bit(UsedIo) /\ ~Has16Bit(UsedIo))
              => s_out.p_dev.io.Attributes1 = IO_DATA_PATH_WIDTH_AUTO
        /\ (~Has8Bit(UsedIo) /\ Has16Bit(UsedIo))
              => s_out.p_dev.io.Attributes1 = IO_DATA_PATH_WIDTH_16
        /\ (Has8Bit(UsedIo) /\ ~Has16Bit(UsedIo))
              => s_out.p_dev.io.Attributes1 = IO_DATA_PATH_WIDTH_8
        /\ UsedIo.nwin > 1 => s_out.p_dev.io.Attributes2 = s_out.p_dev.io.Attributes1

\* C18: when the scan returns a match, the Vpp of the resolved socket
\* configuration is the accepted entry's Vpp if it declares one, else the
\* default entry's if it declares one, else unset (as before the scan);
\* never a value of an entry examined earlier and rejected.
C18_VppFromAcceptedEntry ==
    Accepted =>
        s_out.p_dev.Vpp =
            (IF AcceptedEntry.vpp1.present % 2 = 1 THEN AcceptedEntry.vpp1.param \div 10000
             ELSE IF s_dflt.vpp1.present % 2 = 1 THEN s_dflt.vpp1.param \div 10000
             ELSE s_dev.Vpp)

\* C19: for every accepted entry the I/O descriptor used is the entry's own
\* when it declares a non-zero window count and the default entry's
\* otherwise; window 1 is that descriptor's first window, window 2 its
\* second when it declares two and has zero ports otherwise; when neither
\* declares a window the entry is accepted with zero ports in both windows
\* and no I/O reservation request.
C19_IoFromChosenDescriptor ==
    Accepted =>
        LET io == s_out.p_dev.io
            last == s_out.calls[Len(s_out.calls)]
        IN  IF AcceptedEntry.io.nwin = 0 /\ s_dflt.io.nwin = 0
            THEN /\ io.NumPorts1 = 0
                 /\ io.NumPorts2 = 0
                 /\ last = <<"config_check", s_out.selected>>
                 /\ s_out.bus.io = {}
            ELSE /\ io.BasePort1 = UsedIo.win[1].base
                 /\ io.NumPorts1 = UsedIo.win[1].len
                 /\ UsedIo.nwin > 1 =>
                       io.BasePort2 = UsedIo.win[2].base /\ io.NumPorts2 = UsedIo.win[2].len
                 /\ UsedIo.nwin <= 1 => io.NumPorts2 = 0
                 /\ last[1] = "pcmcia_request_io" /\ last[3] = TRUE
C19_Witness ==
    /\ Accepted
    /\ s_out.selected = 2
    /\ s_table[1].index # 0 /\ s_table[1].io.nwin = 2
    /\ AcceptedEntry.io.nwin = 0
    /\ s_dflt.io.nwin = 1
    /\ s_out.p_dev.io.BasePort1 = 768
    /\ s_out.p_dev.io.NumPorts2 = 0

(***************************************************************************)
(* The attachment's claims, checked under Spec.                            *)
(***************************************************************************)
CallsOf(calls) == {calls[k] : k \in 1..Len(calls)}
Called(name) == \E c \in CallsOf(a_last.calls) : c[1] = name
AfterProbe == a_last.op = "probe"
\* The reset of the last probe was reached and failed.
ResetFailed == \E c \in CallsOf(a_last.calls) : c[1] = "spectrum_reset" /\ c[3] # 0
\* A step of the last probe's configure failed.
StepFailed ==
    \/ ResetFailed
    \/ \E c \in CallsOf(a_last.calls) :
          \/ c[1] = "pcmcia_loop_config" /\ c[2] # 0
          \/ /\ c[1] \in {"pcmcia_request_irq", "ioport_map", "pcmcia_request_configuration",
                          "orinoco_init", "orinoco_if_add"}
             /\ c[2] = FALSE

\* C1: an attach in which any step fails (CIS scan, IRQ request, mapping,
\* socket configuration request, reset, radio-driver initialize, interface
\* registration) reports failure and ends unattached with nothing retained:
\* the I/O reservation, the IRQ, the socket configuration and the mapping
\* are released and the driver context allocated by probe is freed.
C1_FailedAttachRetainsNothing ==
    (AfterProbe /\ StepFailed) =>
        /\ a_last.ret # 0
        /\ a_life = "unattached"
        /\ a_att.bus = NoBus
        /\ ~a_att.mapped
        /\ a_att.priv # "live"

\* What is seen of an attachment once release has run.
ReleaseView(att) ==
    [mapped |-> att.mapped, unmaps |-> att.unmaps, bus |-> att.bus,
     priv |-> att.priv, frees |-> att.frees,
     unavailable |-> att.hw_unavailable > 0]

\* C2: release is idempotent: in every attachment state in which release
\* may be invoked, invoking it twice in succession leaves the same end
\* state as invoking it once; the register window is unmapped at most once
\* and the driver context freed at most once.
C2_ReleaseIdempotent ==
    (a_life \in {"running", "suspended"} /\ a_att.priv = "live") =>
        LET once == spectrum_cs_release(a_att).att
            twice == spectrum_cs_release(once).att
        IN  /\ ReleaseView(twice) = ReleaseView(once)
            /\ twice.unmaps <= 1
            /\ twice.frees <= 1

\* C4: a reset failure during configure (device absent, or a register
\* access failure at any of the five steps) is fatal to the attach: attach
\* reports failure, release is triggered, and the radio driver's initialize
\* and register_interface entry points are not called for that attach.
C4_ResetFailureFatal ==
    (AfterProbe /\ ResetFailed) =>
        /\ a_last.ret # 0
        /\ Called("spectrum_cs_release")
        /\ ~Called("orinoco_init")
        /\ ~Called("orinoco_if_add")

\* The last probe registered the interface.
Registered == <<"orinoco_if_add", TRUE>> \in CallsOf(a_last.calls)

\* C14: unregister_interface (orinoco_if_del) is called during detach
\* exactly when register_interface (orinoco_if_add) succeeded for that
\* attachment, at most once per attachment, and never for an attachment
\* whose configure failed before or at interface registration.
C14_UnregisterIffRegistered ==
    /\ (AfterProbe /\ a_last.env.alloc_ok) =>
          /\ Registered <=> a_att.netdev
          /\ Registered <=> a_last.ret = 0
          /\ a_att.if_dels = 0
    /\ a_life \in {"running", "suspended"} => a_att.netdev /\ a_att.dev_node
    /\ a_life \notin {"running", "suspended"} => ~a_att.netdev
    /\ a_last.op = "detach" =>
          /\ Called("orinoco_if_del")
          /\ a_att.if_dels = 1
          /\ ~a_att.netdev
    /\ a_att.if_dels <= 1
C14_Witness ==
    /\ a_last.op = "detach"
    /\ a_probes = 2
    /\ a_att.if_dels = 1
    /\ a_att.priv = "freed"

\* What a teardown would change of an attachment.
Teardown(att) ==
    [bus |-> att.bus, mapped |-> att.mapped, unmaps |-> att.unmaps, iobase |-> att.iobase,
     netdev |-> att.netdev, if_dels |-> att.if_dels, dev_node |-> att.dev_node,
     priv |-> att.priv, frees |-> att.frees, p_dev |-> att.p_dev]

\* C15: resume on a suspended attachment returns exactly the result of
\* mark_available (orinoco_up): a failure is reported to the caller, and
\* resume disables no device, unmaps nothing, unregisters no interface and
\* does not mark the hardware unavailable again; suspend only marks the
\* hardware unavailable (orinoco_down) and tears nothing down either.
C15_SuspendResumeFrame ==
    [][ /\ (a_life = "suspended" /\ a_last'.op = "resume") =>
              /\ a_last'.calls = << <<"orinoco_up", a_last'.ret>> >>
              /\ Teardown(a_att') = Teardown(a_att)
              /\ a_att'.hw_unavailable <= a_att.hw_unavailable
              /\ a_last'.ret # 0 => a_att' = a_att
        /\ (a_life = "running" /\ a_last'.op = "suspend") =>
              /\ a_last'.ret = 0
              /\ a_last'.calls = << <<"orinoco_down">> >>
              /\ Teardown(a_att') = Teardown(a_att)
              /\ a_att'.hw_unavailable = a_att.hw_unavailable + 1 ]_vars
C15_Witness ==
    /\ a_last.op = "resume"
    /\ a_last.ret = -ENODEV
    /\ a_life = "suspended"
    /\ a_att.mapped /\ a_att.bus.conf /\ a_att.bus.irq /\ a_att.netdev

\* The steps of configure in their order, and whether a recorded step
\* succeeded.
C16_Order ==
    << "pcmcia_loop_config", "pcmcia_request_irq", "ioport_map", "hermes_struct_init",
       "pcmcia_request_configuration", "spectrum_reset", "orinoco_init",
       "orinoco_if_add", "dev_node" >>
C16_IsStep(c) == \E k \in 1..Len(C16_Order) : c[1] = C16_Order[k]
C16_StepOk(c) ==
    CASE c[1] = "pcmcia_loop_config" -> c[2] = 0
      [] c[1] = "spectrum_reset" -> c[3] = 0
      [] c[1] \in {"hermes_struct_init", "dev_node"} -> TRUE
      [] OTHER -> c[2] = TRUE

\* C16: in every configure run the steps occur in the order CIS scan,
\* interrupt line request, mapping, initialisation of the register-access
\* adapter, socket configuration request, reset with idle=false, radio-driver
\* initialize, interface registration, and each step is performed only if
\* all earlier ones succeeded; the attachment is marked registered only
\* after interface registration succeeded.
C16_ConfigureOrder ==
    (AfterProbe /\ Called("pcmcia_loop_config")) =>
        LET steps == SelectSeq(a_last.calls, C16_IsStep)
        IN  /\ Len(steps) <= Len(C16_Order)
            /\ \A k \in 1..Len(steps) :
                  /\ steps[k][1] = C16_Order[k]
                  /\ k < Len(steps) => C16_StepOk(steps[k])
                  /\ steps[k][1] = "spectrum_reset" => steps[k][2] = FALSE
            /\ a_last.ret = 0 => Registered /\ a_att.dev_node
            /\ Called("dev_node") => Registered

\* The last probe's configure failed before the register window was mapped.
FailedBeforeMapped ==
    \E c \in CallsOf(a_last.calls) :
        \/ c[1] = "pcmcia_loop_config" /\ c[2] # 0
        \/ c[1] \in {"pcmcia_request_irq", "ioport_map"} /\ c[2] = FALSE

\* C20: release unmaps the register window only if configure mapped one for
\* this attachment: when configure fails before the mapping step (scan
\* failure, IRQ request failure, or the mapping itself failing) the release
\* it triggers marks the hardware unavailable and disables the device but
\* unmaps nothing.
C20_UnmapOnlyIfMapped ==
    /\ a_att.unmaps > 0 => a_att.iobase # 0
    /\ (AfterProbe /\ Called("ioport_unmap")) =>
          <<"ioport_map", TRUE>> \in CallsOf(a_last.calls)
    /\ (AfterProbe /\ FailedBeforeMapped) =>
          /\ Called("spectrum_cs_release")
          /\ Called("hw_unavailable++")
          /\ Called("pcmcia_disable_device")
          /\ ~Called("ioport_unmap")
          /\ a_att.unmaps = 0
          /\ a_att.hw_unavailable > 0
          /\ a_att.bus = NoBus
C20_Witness ==
    /\ AfterProbe
    /\ <<"ioport_map", FALSE>> \in CallsOf(a_last.calls)
    /\ Called("pcmcia_disable_device")
    /\ a_att.unmaps = 0
    /\ a_att.iobase = 0

(***************************************************************************)
(* Release and the interrupt handler, checked under SpecIrq.               *)
(***************************************************************************)
\* Release has executed the statement named.
ReleaseDid(name) == \E k \in 1..Len(ReleaseSteps) : ReleaseSteps[k] = name /\ k < i_rel

\* C3: in every interleaving of release with the interrupt handler, the
\* hardware-unavailable flag is incremented under the shared lock and is set
\* before the register window is unmapped, so the handler never accesses an
\* unmapped window.
C3_HandlerNeverTouchesUnmapped ==
    /\ ~i_bad
    /\ i_irq = "access" => i_att.mapped
    /\ (ReleaseDid("hw_unavailable++") /\ ~ReleaseDid("spin_unlock_irqrestore"))
          => i_lock = "release"
    /\ (i_rel \in 1..Len(ReleaseSteps) /\ ReleaseSteps[i_rel] = "hw_unavailable++")
          => i_lock = "release"
    /\ ~i_att.mapped => i_att.hw_unavailable > 0
C3_Witness ==
    /\ i_irq = "locked"
    /\ ~i_att.mapped
    /\ i_att.unmaps = 1
    /\ i_touched = 1

====
